---- MODULE Spec2Model ----
(***************************************************************************)
(* Play.Common: the generic MongoDB repository with optimistic             *)
(* concurrency, the background-task tracker with graceful shutdown, and    *)
(* the bearer-token authentication stage.                                  *)
(***************************************************************************)
EXTENDS Naturals, Integers, Sequences, FiniteSets, TLC

(***************************************************************************)
(* Bounds of the model.                                                    *)
(***************************************************************************)
MaxVersion == 3
MaxCreates == 2
MaxRequests == 2
NumUnits == 2
MaxTime == 2
MaxPage == 2
MaxPageSize == 2

Keys == {1, 2}
Callers == {"A", "B"}
Versions == 1..MaxVersion
PermissionCodes == {"read", "write"}
Units == 1..NumUnits

VARIABLES
    collection,  \* the MongoDB collection: key -> stored document or NoDocument
    lastOp,      \* the most recent repository call and what it returned
    creates,     \* number of documents inserted so far
    cursor,      \* GetAll between Find and CountDocuments: the open cursor, or NoCursor
    watch,       \* history: the (key, version) pair whose Updates are counted
    held,        \* history: callers holding the watched pair, fetched from the live document
    okLife,      \* history: successful Updates of the watched pair since its last Create
    okEver,      \* history: successful Updates of the watched pair since Init
    rejLife      \* history: a caller holding the watched pair got ErrEditConflict

VARIABLES
    servePc,         \* Serve: "listen", "receive" (on shutdownError) or "returned"
    serveErr,        \* what Serve returned
    sigPc,           \* the signal goroutine of Serve
    shutdownResult,  \* what server.Shutdown returned
    inflight,        \* requests being handled
    WaitGroup,       \* app.WaitGroup: the counter of outstanding background units
    units,           \* each background unit's position
    logged,          \* units whose panic app.Logger.Error has logged
    crashed,         \* the process died of a panic nobody recovered
    panicked,        \* history: units whose fn panicked
    atSignal         \* history: units outstanding when the signal arrived

VARIABLES
    self,      \* the identifier (audience URI) of the service running the library
    request,   \* the request the Authentication stage handled last
    response   \* what the stage answered: status, headers, calls of next, context

VARIABLES
    context,   \* the context of the request Authenticate forwards to next
    required,  \* the permission code of the route RequirePermission guards
    authz      \* what RequirePermission answered, and its calls of the handler

VARIABLES
    handlerPc,  \* the handler RecoverPanic wraps: where it is
    wire        \* the http.ResponseWriter: headers set, header and body sent

VARIABLES
    filters,     \* the Filters value built from a request's query parameters
    validation,  \* the keys ValidateFilters added to the validator's errors
    paging       \* what SortColumn, SortDirection, Limit and Offset returned for it

repoVars == <<collection, lastOp, creates, cursor, watch, held, okLife, okEver, rejLife>>

authVars == <<self, request, response>>

serveVars == <<servePc, serveErr, sigPc, shutdownResult, inflight, WaitGroup, units,
               logged, crashed, panicked, atSignal>>

pipeVars == <<context, required, authz>>

filterVars == <<filters, validation, paging>>

handlerVars == <<handlerPc, wire>>

notRepo == <<serveVars, authVars, pipeVars, handlerVars, filterVars>>

notServe == <<repoVars, authVars, pipeVars, handlerVars, filterVars>>

vars == <<repoVars, serveVars, authVars, pipeVars, handlerVars, filterVars>>

(***************************************************************************)
(* database.User and its accessors.                                        *)
(***************************************************************************)
User(id, permissions, activated, version) ==
    [ID |-> id, Permissions |-> permissions, Activated |-> activated, Version |-> version]

GetID(u) == u.ID

GetVersion(u) == u.Version

SetVersion(u, version) == [u EXCEPT !.Version = version]

GetPermissions(u) == u.Permissions

\* The zero value of the entity type, returned next to an error.
ZeroUser == User(0, {}, FALSE, 0)

NoDocument == [absent |-> TRUE]

\* The entities callers submit: permissions {"read"} or {"read", "write"}.
Entities ==
    { User(k, ps, TRUE, v) : k \in Keys, ps \in {{"read"}, PermissionCodes}, v \in Versions }

ErrNil == "nil"
ErrRecordNotFound == "record not found"
ErrEditConflict == "edit conflict"
ErrStorage == "storage error"

\* A history counter that stops at 2: "twice or more".
Sat(n) == IF n < 2 THEN n + 1 ELSE 2

\* Keys are interchangeable, so the counted pair is a version of key 1 that an
\* Update can submit.
WatchedPairs == { <<k, v>> : k \in {1}, v \in 1..(MaxVersion - 1) }

Watched(id, version) == watch = <<id, version>>

ZeroMetadata ==
    [CurrentPage |-> 0, PageSize |-> 0, FirstPage |-> 0, LastPage |-> 0, TotalRecords |-> 0]

\* What a call returned: its error, the item of a lookup, the items and metadata of GetAll.
Returned(op, id, version, err, item, items, metadata) ==
    [op |-> op, id |-> id, version |-> version, err |-> err, item |-> item,
     items |-> items, metadata |-> metadata, filter |-> ""]

Result(op, id, version, err, item) ==
    Returned(op, id, version, err, item, <<>>, ZeroMetadata)

(***************************************************************************)
(* MongoRepository.GetByID                                                 *)
(***************************************************************************)
\* collection.FindOne(ctx, bson.M{"_id": id})
FindOne(id) == IF id \in Keys THEN collection[id] ELSE NoDocument

Lookup(c, id, fail) ==
    /\ LET found == FindOne(id)
           err == IF fail THEN ErrStorage
                  ELSE IF found = NoDocument THEN ErrRecordNotFound ELSE ErrNil
           item == IF err = ErrNil THEN found ELSE ZeroUser
       IN /\ lastOp' = Result("GetByID", id, 0, err, item)
          /\ held' = IF err # ErrNil THEN held
                     ELSE IF Watched(id, GetVersion(item)) THEN held \cup {c}
                     ELSE held \ {c}
    /\ UNCHANGED <<collection, creates, cursor, watch, okLife, okEver, rejLife>>

GetByID(c, id, fail) == Lookup(c, id, fail) /\ UNCHANGED notRepo

(***************************************************************************)
(* MongoRepository.Create                                                  *)
(***************************************************************************)
\* collection.InsertOne: a second document with the same _id is a duplicate-key error.
InsertOne(e) == collection[GetID(e)] = NoDocument

\* The key Create returns: nil (0) next to an error, and also when the inserted
\* id does not have the repository's key type K.
CreatedKey(id, inserted, idIsK) == IF inserted /\ idIsK THEN id ELSE 0

Create(e, fail, idIsK) ==
    /\ creates < MaxCreates
    /\ LET id == GetID(e)
           inserted == ~fail /\ InsertOne(e)
       IN /\ collection' = IF inserted THEN [collection EXCEPT ![id] = e] ELSE collection
          /\ creates' = IF inserted THEN creates + 1 ELSE creates
          /\ okLife' = IF inserted /\ id = watch[1] THEN 0 ELSE okLife
          /\ rejLife' = IF inserted /\ id = watch[1] THEN FALSE ELSE rejLife
          /\ held' = IF inserted /\ id = watch[1] THEN {} ELSE held
          /\ lastOp' = Result("Create", CreatedKey(id, inserted, idIsK), GetVersion(e),
                              IF inserted THEN ErrNil ELSE ErrStorage, ZeroUser)
    /\ UNCHANGED <<cursor, watch, okEver>>
    /\ UNCHANGED notRepo

(***************************************************************************)
(* MongoRepository.Update                                                  *)
(***************************************************************************)
\* Mutant: the filter of UpdateOne without its "version" field.
FilterByIDOnly(doc, e) ==
    /\ doc # NoDocument
    /\ doc.ID = GetID(e)

\* The filter of UpdateOne: {"_id": GetID(), "version": GetVersion()}.
UpdateFilterMatches(doc, e) ==
    /\ doc # NoDocument
    /\ doc.ID = GetID(e)
    /\ doc.Version = GetVersion(e)

\* Mutant: the update document with the version left as submitted.
UpdateDocumentSameVersion(e) == e

\* The update document of UpdateOne: {"$set": SetVersion(GetVersion() + 1)}.
UpdateDocument(e) == SetVersion(e, GetVersion(e) + 1)

\* Mutant: UpdateOne as an upsert, writing the entity when nothing matches.
UpdateUpserts(doc, e) == SetVersion(e, GetVersion(e) + 1)

\* What UpdateOne leaves in place of a document its filter does not match.
UpdateUnmatched(doc, e) == doc

UpdateOne(e) ==
    [k \in Keys |->
        IF UpdateFilterMatches(collection[k], e) THEN UpdateDocument(e)
        ELSE IF k = GetID(e) THEN UpdateUnmatched(collection[k], e)
        ELSE collection[k]]

MatchedCount(e) == Cardinality({k \in Keys : UpdateFilterMatches(collection[k], e)})

Update(c, e, fail) ==
    /\ GetVersion(e) < MaxVersion
    /\ LET id == GetID(e)
           v == GetVersion(e)
           err == IF fail THEN ErrStorage
                  ELSE IF MatchedCount(e) = 0 THEN ErrEditConflict ELSE ErrNil
       IN /\ collection' = IF fail THEN collection ELSE UpdateOne(e)
          /\ lastOp' = Result("Update", id, v, err, ZeroUser)
          /\ okLife' = IF err = ErrNil /\ Watched(id, v) THEN Sat(okLife) ELSE okLife
          /\ okEver' = IF err = ErrNil /\ Watched(id, v) THEN Sat(okEver) ELSE okEver
          /\ rejLife' = IF /\ err = ErrEditConflict
                           /\ Watched(id, v)
                           /\ c \in held
                           /\ collection[id] # NoDocument
                        THEN TRUE ELSE rejLife
    /\ UNCHANGED <<creates, cursor, watch, held>>
    /\ UNCHANGED notRepo

(***************************************************************************)
(* MongoRepository.Delete                                                  *)
(***************************************************************************)
\* bson.M{"_id": id}: the version of the document is no part of the filter.
DeleteFilterMatches(doc, id) == doc # NoDocument /\ GetID(doc) = id

\* Mutant: Delete without the check of DeletedCount.
DeleteResultAlwaysNil(deletedCount) == ErrNil

\* if result.DeletedCount == 0 { return ErrRecordNotFound }; return nil
DeleteResult(deletedCount) == IF deletedCount = 0 THEN ErrRecordNotFound ELSE ErrNil

Delete(id, fail) ==
    /\ LET deleted == ~fail /\ DeleteFilterMatches(collection[id], id)
           deletedCount == IF deleted THEN 1 ELSE 0
       IN /\ collection' = IF deleted THEN [collection EXCEPT ![id] = NoDocument]
                           ELSE collection
          /\ held' = IF deleted /\ id = watch[1] THEN {} ELSE held
          /\ lastOp' = Result("Delete", id, 0,
                              IF fail THEN ErrStorage ELSE DeleteResult(deletedCount),
                              ZeroUser)
    /\ UNCHANGED <<creates, cursor, watch, okLife, okEver, rejLife>>
    /\ UNCHANGED notRepo

(***************************************************************************)
(* MongoRepository.GetByFilter                                             *)
(***************************************************************************)
\* The bson.M filters callers pass: every document, or those granting "write".
QueryFilters == {"all", "write"}

\* Mutant: FindOne without the filter.
FilterIgnored(filter, doc) == doc # NoDocument

FilterMatches(filter, doc) ==
    /\ doc # NoDocument
    /\ (filter = "write" => "write" \in doc.Permissions)

Matching(filter) == { collection[k] : k \in { i \in Keys : FilterMatches(filter, collection[i]) } }

GetByFilter(c, filter, fail) ==
    /\ \E item \in IF fail \/ Matching(filter) = {} THEN {ZeroUser} ELSE Matching(filter) :
          LET err == IF fail THEN ErrStorage
                     ELSE IF Matching(filter) = {} THEN ErrRecordNotFound ELSE ErrNil
          IN /\ lastOp' = [Result("GetByFilter", GetID(item), 0, err, item)
                           EXCEPT !.filter = filter]
             /\ held' = IF err # ErrNil THEN held
                        ELSE IF Watched(GetID(item), GetVersion(item)) THEN held \cup {c}
                        ELSE held \ {c}
    /\ UNCHANGED <<collection, creates, cursor, watch, okLife, okEver, rejLife>>
    /\ UNCHANGED notRepo

(***************************************************************************)
(* filters.Filters                                                         *)
(***************************************************************************)
Filters(p, pageSize, sort, sortSafelist) ==
    [Page |-> p, PageSize |-> pageSize, Sort |-> sort, SortSafelist |-> sortSafelist]

\* strings.HasPrefix(f.Sort, "-")
HasDescendingPrefix(sort) == sort \in {"-version", "-_id", "-name"}

\* strings.TrimPrefix(f.Sort, "-")
TrimPrefix(sort) ==
    CASE sort = "-version" -> "version"
      [] sort = "-_id" -> "_id"
      [] sort = "-name" -> "name"
      [] OTHER -> sort

\* Mutant: the safelist is searched for the column, the "-" already stripped.
SortIsSafeAfterTrim(f) == TrimPrefix(f.Sort) \in f.SortSafelist

\* for _, safeValue := range f.SortSafelist { if f.Sort == safeValue
SortIsSafe(f) == f.Sort \in f.SortSafelist

\* SortColumn panics when the sort value is not in the safelist.
SortColumn(f) == IF SortIsSafe(f) THEN TrimPrefix(f.Sort) ELSE "panic"

SortDirection(f) == IF HasDescendingPrefix(f.Sort) THEN -1 ELSE 1

Limit(f) == f.PageSize

Offset(f) == (f.Page - 1) * f.PageSize

\* ceil(totalRecords / pageSize); a page size of 0 divides by zero and the
\* conversion of the infinite quotient to int is left open (-1 here).
CeilDiv(n, d) == IF d = 0 THEN -1 ELSE (n + d - 1) \div d

CalculateMetadata(totalRecords, p, pageSize) ==
    IF totalRecords = 0 THEN ZeroMetadata
    ELSE [CurrentPage |-> p, PageSize |-> pageSize, FirstPage |-> 1,
          LastPage |-> CeilDiv(totalRecords, pageSize), TotalRecords |-> totalRecords]

(***************************************************************************)
(* filters.ValidateFilters                                                 *)
(***************************************************************************)
\* The largest page and page size ValidateFilters lets through.
PageMaximum == 10000000

PageSizeMaximum == 100

\* validator.Between
Between(value, min, max) == value >= min /\ value <= max

\* Mutant: every value is taken to be in the list.
InAlways(value, safelist) == TRUE

\* validator.In
In(value, safelist) == value \in safelist

\* The keys of v.Errors after ValidateFilters on an empty validator.
ValidateFilters(f) ==
    (IF Between(f.Page, 0, PageMaximum) THEN {} ELSE {"page"})
    \cup (IF Between(f.PageSize, 0, PageSizeMaximum) THEN {} ELSE {"page_size"})
    \cup (IF In(f.Sort, f.SortSafelist) THEN {} ELSE {"sort"})

\* Validator.HasErrors
HasErrors(errors) == errors # {}

(***************************************************************************)
(* MongoRepository.GetAll                                                  *)
(***************************************************************************)
SortValue(doc, column) == IF column = "version" THEN doc.Version ELSE doc.ID

\* Mutant: the secondary sort on _id descending.
SortsBeforeKeyDescending(a, b, column, direction) ==
    LET va == SortValue(a, column) * direction
        vb == SortValue(b, column) * direction
    IN va < vb \/ (va = vb /\ a.ID > b.ID)

\* bson.D{{column, direction}, {"_id", 1}}
SortsBefore(a, b, column, direction) ==
    LET va == SortValue(a, column) * direction
        vb == SortValue(b, column) * direction
    IN va < vb \/ (va = vb /\ a.ID < b.ID)

RECURSIVE SortDocuments(_, _, _)
SortDocuments(docs, column, direction) ==
    IF docs = {} THEN <<>>
    ELSE LET first == CHOOSE d \in docs :
                        \A o \in docs \ {d} : SortsBefore(d, o, column, direction)
         IN <<first>> \o SortDocuments(docs \ {first}, column, direction)

Min(a, b) == IF a < b THEN a ELSE b

\* skip, then limit; a limit of 0 is no limit.
SkipLimit(sorted, skip, limit) ==
    LET last == IF limit = 0 THEN Len(sorted) ELSE Min(Len(sorted), skip + limit)
    IN SubSeq(sorted, skip + 1, last)

NoCursor == [open |-> FALSE]

SortSafelist == {"version", "-version", "_id"}

\* Mutant: the count taken from what Find matched.
CountOfFind(atFind, atCount) == Cardinality(atFind)

\* collection.CountDocuments(ctx, filter): a query of its own, after Find.
CountDocuments(atFind, atCount) == Cardinality(atCount)

\* Mutant: the length of the page passed as the total.
TotalOfPage(count, items) == Len(items)

\* The first argument of filters.CalculateMetadata: int(count).
TotalRecords(count, items) == count

\* GetAll up to and including collection.Find.
GetAllFind(filter, f, fail) ==
    /\ cursor = NoCursor
    /\ LET panics == ~SortIsSafe(f)
           findErr == ~panics /\ (fail \/ Offset(f) < 0)
           sorted == SortDocuments(Matching(filter), SortColumn(f), SortDirection(f))
       IN IF panics \/ findErr
          THEN /\ cursor' = cursor
               /\ lastOp' = Result("GetAll", 0, 0, IF panics THEN "panic" ELSE ErrStorage,
                                   ZeroUser)
          ELSE /\ cursor' = [open |-> TRUE, filter |-> filter, findOpts |-> f,
                             items |-> SkipLimit(sorted, Offset(f), Limit(f)),
                             matched |-> Matching(filter)]
               /\ lastOp' = Result("Find", 0, 0, ErrNil, ZeroUser)
    /\ UNCHANGED <<collection, creates, watch, held, okLife, okEver, rejLife>>
    /\ UNCHANGED notRepo

\* GetAll from collection.CountDocuments to its return.
GetAllCount(fail) ==
    /\ cursor # NoCursor
    /\ LET count == CountDocuments(cursor.matched, Matching(cursor.filter))
           f == cursor.findOpts
       IN lastOp' = IF fail THEN Result("GetAll", 0, 0, ErrStorage, ZeroUser)
                    ELSE Returned("GetAll", 0, 0, ErrNil, ZeroUser, cursor.items,
                                  CalculateMetadata(TotalRecords(count, cursor.items),
                                                    f.Page, f.PageSize))
    /\ cursor' = NoCursor
    /\ UNCHANGED <<collection, creates, watch, held, okLife, okEver, rejLife>>
    /\ UNCHANGED notRepo

(***************************************************************************)
(* A handler's use of Filters: validate, then hand them to GetAll.         *)
(***************************************************************************)
\* The page and page_size query parameters read into Filters.
Pages == (-1 .. MaxPage) \cup {PageMaximum, PageMaximum + 1}

PageSizes == (-1 .. MaxPageSize) \cup {PageSizeMaximum, PageSizeMaximum + 1}

Sorts == {"version", "-version", "-_id", "name"}

FilterInputs ==
    { Filters(p, pageSize, sort, SortSafelist) :
          p \in Pages, pageSize \in PageSizes, sort \in Sorts }

NotValidated == [done |-> FALSE, errors |-> {}]

NotPaged ==
    [done |-> FALSE, panicked |-> FALSE, column |-> "", direction |-> 0,
     limit |-> 0, offset |-> 0]

\* filters.ValidateFilters(v, f) on a new validator.
Validate ==
    /\ ~validation.done
    /\ validation' = [done |-> TRUE, errors |-> ValidateFilters(filters)]
    /\ UNCHANGED <<filters, paging>>
    /\ UNCHANGED <<repoVars, serveVars, authVars, pipeVars, handlerVars>>

\* The find options of GetAll: SortColumn, SortDirection, Offset and Limit.
FindOptions ==
    /\ ~paging.done
    /\ paging' =
         IF SortColumn(filters) = "panic"
         THEN [NotPaged EXCEPT !.done = TRUE, !.panicked = TRUE]
         ELSE [done |-> TRUE, panicked |-> FALSE, column |-> SortColumn(filters),
               direction |-> SortDirection(filters), limit |-> Limit(filters),
               offset |-> Offset(filters)]
    /\ UNCHANGED <<filters, validation>>
    /\ UNCHANGED <<repoVars, serveVars, authVars, pipeVars, handlerVars>>

FiltersInit ==
    /\ filters = Filters(1, 1, "version", SortSafelist)
    /\ validation = NotValidated
    /\ paging = NotPaged

(***************************************************************************)
(* App.Background                                                          *)
(***************************************************************************)
\* A unit is outstanding from WaitGroup.Add(1) to its deferred WaitGroup.Done().
Outstanding == {"spawned", "running", "panicking", "returned", "recovered"}

Alive == ~crashed

\* Mutant: the goroutine without its deferred recover().
PanicEscapes == FALSE

\* The deferred func() { if err := recover(); err != nil { Logger.Error } }.
PanicIsRecovered == TRUE

\* Mutant: Background without its WaitGroup.Add(1).
AddForgotten(counter) == counter

\* WaitGroup.Add(1)
Add(counter) == counter + 1

\* WaitGroup.Done()
Done(counter) == counter - 1

\* The positions from which the deferred WaitGroup.Done() runs: after a normal
\* return of fn and after a recovered panic.
DoneRunsAfter == {"returned", "recovered"}

\* Background up to `go func()`: WaitGroup.Add(1), then the goroutine is launched.
Background(u) ==
    /\ Alive
    /\ inflight > 0
    /\ units[u] = "unspawned"
    /\ WaitGroup' = Add(WaitGroup)
    /\ units' = [units EXCEPT ![u] = "spawned"]
    /\ UNCHANGED <<servePc, serveErr, sigPc, shutdownResult, inflight, logged, crashed,
                   panicked, atSignal>>
    /\ UNCHANGED notServe

\* The goroutine is scheduled and calls fn(ctx).
UnitStarts(u) ==
    /\ Alive
    /\ units[u] = "spawned"
    /\ units' = [units EXCEPT ![u] = "running"]
    /\ UNCHANGED <<servePc, serveErr, sigPc, shutdownResult, inflight, WaitGroup, logged,
                   crashed, panicked, atSignal>>
    /\ UNCHANGED notServe

\* fn(ctx) returns, or panics.
UnitEnds(u, panics) ==
    /\ Alive
    /\ units[u] = "running"
    /\ units' = [units EXCEPT ![u] = IF panics THEN "panicking" ELSE "returned"]
    /\ panicked' = IF panics THEN panicked \cup {u} ELSE panicked
    /\ UNCHANGED <<servePc, serveErr, sigPc, shutdownResult, inflight, WaitGroup, logged,
                   crashed, atSignal>>
    /\ UNCHANGED notServe

\* The deferred recover: the panic is logged; an unrecovered panic ends the process.
UnitRecovers(u) ==
    /\ Alive
    /\ units[u] = "panicking"
    /\ IF PanicIsRecovered
       THEN /\ logged' = logged \cup {u}
            /\ units' = [units EXCEPT ![u] = "recovered"]
            /\ crashed' = crashed
       ELSE /\ crashed' = TRUE
            /\ UNCHANGED <<logged, units>>
    /\ UNCHANGED <<servePc, serveErr, sigPc, shutdownResult, inflight, WaitGroup, panicked,
                   atSignal>>
    /\ UNCHANGED notServe

\* The deferred WaitGroup.Done().
UnitDone(u) ==
    /\ Alive
    /\ units[u] \in DoneRunsAfter
    /\ WaitGroup' = Done(WaitGroup)
    /\ units' = [units EXCEPT ![u] = "done"]
    /\ UNCHANGED <<servePc, serveErr, sigPc, shutdownResult, inflight, logged, crashed,
                   panicked, atSignal>>
    /\ UNCHANGED notServe

(***************************************************************************)
(* Requests served by http.Server                                          *)
(***************************************************************************)
\* The server accepts a request while it listens and Shutdown was not called.
RequestStarts ==
    /\ Alive
    /\ servePc = "listen"
    /\ sigPc = "waitSignal"
    /\ inflight < MaxRequests
    /\ inflight' = inflight + 1
    /\ UNCHANGED <<servePc, serveErr, sigPc, shutdownResult, WaitGroup, units, logged,
                   crashed, panicked, atSignal>>
    /\ UNCHANGED notServe

RequestEnds ==
    /\ Alive
    /\ inflight > 0
    /\ inflight' = inflight - 1
    /\ UNCHANGED <<servePc, serveErr, sigPc, shutdownResult, WaitGroup, units, logged,
                   crashed, panicked, atSignal>>
    /\ UNCHANGED notServe

(***************************************************************************)
(* App.Serve: the signal goroutine                                         *)
(***************************************************************************)
\* sig := <-quit, then server.Shutdown(ctx) is called and closes the listeners.
Signal ==
    /\ Alive
    /\ sigPc = "waitSignal"
    /\ servePc # "returned"
    /\ sigPc' = "shutdown"
    /\ atSignal' = {u \in Units : units[u] \in Outstanding}
    /\ UNCHANGED <<servePc, serveErr, shutdownResult, inflight, WaitGroup, units, logged,
                   crashed, panicked>>
    /\ UNCHANGED notServe

\* Where the goroutine goes after server.Shutdown returned err.
AfterShutdown(err) == IF err # "nil" THEN "sendErr" ELSE "wait"

\* server.Shutdown returns: nil once no request is in flight, the context's
\* error when the 5 seconds pass first, the listeners' close error otherwise.
ShutdownReturns(err) ==
    /\ Alive
    /\ sigPc = "shutdown"
    /\ \/ err = "nil" /\ inflight = 0
       \/ err = "deadline exceeded" /\ inflight > 0
       \/ err = "listener error" /\ inflight = 0
    /\ shutdownResult' = err
    /\ sigPc' = AfterShutdown(err)
    /\ UNCHANGED <<servePc, serveErr, inflight, WaitGroup, units, logged, crashed, panicked,
                   atSignal>>
    /\ UNCHANGED notServe

\* Mutant: Serve drops the value it receives and returns nil.
ServeReturnsNil(received) == "nil"

\* err = <-shutdownError; if err != nil { return err }; return nil
ServeReturns(received) == received

\* shutdownError <- err: the channel is unbuffered, so the send and Serve's
\* receive are one step, after which Serve returns.
SendErr ==
    /\ Alive
    /\ sigPc = "sendErr"
    /\ servePc = "receive"
    /\ sigPc' = "wait"
    /\ servePc' = "returned"
    /\ serveErr' = ServeReturns(shutdownResult)
    /\ UNCHANGED <<shutdownResult, inflight, WaitGroup, units, logged, crashed, panicked,
                   atSignal>>
    /\ UNCHANGED notServe

\* Mutant: Wait returns whatever the counter is.
WaitIgnoresCounter(counter) == TRUE

\* WaitGroup.Wait() returns when the counter is zero.
WaitUnblocked(counter) == counter = 0

WaitReturns ==
    /\ Alive
    /\ sigPc = "wait"
    /\ WaitUnblocked(WaitGroup)
    /\ sigPc' = "sendNil"
    /\ UNCHANGED <<servePc, serveErr, shutdownResult, inflight, WaitGroup, units, logged,
                   crashed, panicked, atSignal>>
    /\ UNCHANGED notServe

\* shutdownError <- nil
SendNil ==
    /\ Alive
    /\ sigPc = "sendNil"
    /\ servePc = "receive"
    /\ sigPc' = "done"
    /\ servePc' = "returned"
    /\ serveErr' = ServeReturns("nil")
    /\ UNCHANGED <<shutdownResult, inflight, WaitGroup, units, logged, crashed, panicked,
                   atSignal>>
    /\ UNCHANGED notServe

(***************************************************************************)
(* App.Serve: the calling goroutine                                        *)
(***************************************************************************)
\* ListenAndServe returns an error other than http.ErrServerClosed.
ListenFails ==
    /\ Alive
    /\ servePc = "listen"
    /\ sigPc = "waitSignal"
    /\ servePc' = "returned"
    /\ serveErr' = "listen error"
    /\ UNCHANGED <<sigPc, shutdownResult, inflight, WaitGroup, units, logged, crashed,
                   panicked, atSignal>>
    /\ UNCHANGED notServe

\* ListenAndServe returns http.ErrServerClosed once Shutdown has been called.
ListenReturnsClosed ==
    /\ Alive
    /\ servePc = "listen"
    /\ sigPc # "waitSignal"
    /\ servePc' = "receive"
    /\ UNCHANGED <<serveErr, sigPc, shutdownResult, inflight, WaitGroup, units, logged,
                   crashed, panicked, atSignal>>
    /\ UNCHANGED notServe

ServeInit ==
    /\ servePc = "listen"
    /\ serveErr = "none"
    /\ sigPc = "waitSignal"
    /\ shutdownResult = "none"
    /\ inflight = 0
    /\ WaitGroup = 0
    /\ units = [u \in Units |-> "unspawned"]
    /\ logged = {}
    /\ crashed = FALSE
    /\ panicked = {}
    /\ atSignal = {}

ServeNext ==
    \/ \E u \in Units : Background(u)
    \/ \E u \in Units : UnitStarts(u)
    \/ \E u \in Units, panics \in BOOLEAN : UnitEnds(u, panics)
    \/ \E u \in Units : UnitRecovers(u)
    \/ \E u \in Units : UnitDone(u)
    \/ RequestStarts
    \/ RequestEnds
    \/ Signal
    \/ \E err \in {"nil", "deadline exceeded", "listener error"} : ShutdownReturns(err)
    \/ SendErr
    \/ WaitReturns
    \/ SendNil
    \/ ListenFails
    \/ ListenReturnsClosed

(***************************************************************************)
(* App.Authenticate                                                        *)
(***************************************************************************)
\* app.Config.Authority, the trusted issuer.
Authority == "https://identity"

Issuers == {Authority, "https://elsewhere"}

\* The audience URIs of the services that use the library.
Services == {"http://localhost:4445", "http://localhost:4446"}

\* The audience Authenticate asks the token for.
ExpectedAudience == "http://localhost:4445"

NoTime == -1

Times == 0..MaxTime

\* What a token string decodes to: whether its signature verifies against the
\* public key, and its registered claims.
Tokens ==
    [signed : BOOLEAN, Issuer : Issuers, Audiences : SUBSET Services,
     Subject : {"1", "2", "x"}, NotBefore : Times \cup {NoTime},
     Expires : Times \cup {NoTime}]

\* strings.Split(authorizationHeader, " "); <<>> is the absent (empty) header.
Headers ==
    { <<>>, <<"Bearer">>, <<"Bearer", "token">>, <<"Basic", "token">>,
      <<"bearer", "token">>, <<"Bearer", "token", "extra">> }

HeaderIsBearer(header) == Len(header) = 2 /\ header[1] = "Bearer"

\* jwt.RSACheck: an error unless the signature verifies.
RSACheck(token) == token.signed

\* Mutant: Valid without the check of the expiry time.
ValidIgnoresExpiry(token, now) == token.NotBefore = NoTime \/ token.NotBefore <= now

\* claims.Valid(time.Now()): not expired and not before its start.
Valid(token, now) ==
    /\ token.Expires = NoTime \/ token.Expires > now
    /\ token.NotBefore = NoTime \/ token.NotBefore <= now

\* claims.AcceptAudience: the audience is listed, or the token lists none.
AcceptAudience(token, audience) ==
    audience \in token.Audiences \/ token.Audiences = {}

\* strconv.ParseInt(claims.Subject, 10, 64): the value, or -1 for an error.
ParseInt(subject) ==
    CASE subject = "1" -> 1
      [] subject = "2" -> 2
      [] OTHER -> -1

NoResponse ==
    [stage |-> "none", status |-> 0, challenge |-> "", vary |-> "", nextCalls |-> 0,
     user |-> ZeroUser]

\* The three ways the stage ends. next is called only by the last.
InvalidAuthenticationTokenResponse ==
    [stage |-> "InvalidToken", status |-> 401, challenge |-> "Bearer",
     vary |-> "Authorization", nextCalls |-> 0, user |-> ZeroUser]

ServerErrorResponse ==
    [stage |-> "ServerError", status |-> 500, challenge |-> "",
     vary |-> "Authorization", nextCalls |-> 0, user |-> ZeroUser]

\* ContextSetUser, then next.ServeHTTP.
Authenticated(user) ==
    [stage |-> "Authenticated", status |-> 0, challenge |-> "",
     vary |-> "Authorization", nextCalls |-> 1, user |-> user]

\* Mutant: a subject that does not parse is answered like a bad credential.
SubjectErrorIsInvalidToken == InvalidAuthenticationTokenResponse

\* userID, err := strconv.ParseInt(...); if err != nil { ServerErrorResponse }
SubjectErrorResponse == ServerErrorResponse

\* Mutant: a user that is gone is answered 500, unlike any other invalid token.
LookupNotFoundIsServerError(err, item) ==
    IF err = ErrNil THEN Authenticated(item) ELSE ServerErrorResponse

\* Mutant: Authenticate turns away a user that is not activated.
LookupRequiresActivated(err, item) ==
    IF err = ErrNil /\ item.Activated THEN Authenticated(item)
    ELSE IF err = ErrNil \/ err = ErrRecordNotFound THEN InvalidAuthenticationTokenResponse
    ELSE ServerErrorResponse

\* user, err := repository.GetByID(...): the switch on err, else next.ServeHTTP.
LookupResponse(err, item) ==
    IF err = ErrNil THEN Authenticated(item)
    ELSE IF err = ErrRecordNotFound THEN InvalidAuthenticationTokenResponse
    ELSE ServerErrorResponse

\* The request context before ContextSetUser: no value under userContextKey.
NoContext == [present |-> FALSE, user |-> ZeroUser]

\* Mutant: the request is forwarded with the context it came with.
ContextKeepsOld(ctx, user) == ctx

\* context.WithValue(r.Context(), userContextKey, user)
ContextSetUser(ctx, user) == [present |-> TRUE, user |-> user]

\* r.Context().Value(userContextKey).(database.User); panics when it is missing.
ContextHasUser(ctx) == ctx.present

ContextGetUser(ctx) == ctx.user

\* The checks of the token before the subject is looked up.
CredentialAccepted(header, token, now) ==
    /\ header # <<>>
    /\ HeaderIsBearer(header)
    /\ RSACheck(token)
    /\ Valid(token, now)
    /\ token.Issuer = Authority
    /\ AcceptAudience(token, ExpectedAudience)

Authenticate(header, token, now, fail) ==
    /\ response.stage = "none"
    /\ request' = [header |-> header, token |-> token, now |-> now]
    /\ IF ~CredentialAccepted(header, token, now)
       THEN /\ response' = InvalidAuthenticationTokenResponse
            /\ UNCHANGED <<repoVars, context>>
       ELSE IF ParseInt(token.Subject) = -1
       THEN /\ response' = SubjectErrorResponse
            /\ UNCHANGED <<repoVars, context>>
       ELSE /\ Lookup("auth", ParseInt(token.Subject), fail)
            /\ response' = LookupResponse(lastOp'.err, lastOp'.item)
            /\ context' = IF lastOp'.err = ErrNil
                          THEN ContextSetUser(context, lastOp'.item)
                          ELSE context
    /\ UNCHANGED <<self, required, authz, serveVars, handlerVars, filterVars>>

(***************************************************************************)
(* App.RequirePermission                                                   *)
(***************************************************************************)
\* Mutant: Include that finds every code.
IncludeAlways(p, code) == TRUE

\* Permissions.Include: the slice holds the code.
Include(p, code) == code \in p

\* Mutant: the permissions of the user Authenticate put into the context.
CapabilitiesOfSnapshot(snapshot, refreshed) == GetPermissions(snapshot)

\* user, err := repository.GetByID(...); user.getPermissions()
CapabilitiesOf(snapshot, refreshed) == GetPermissions(refreshed)

\* Mutant: Authenticate calls next whatever it answered.
ForwardedAlways(resp) == resp.stage # "none"

\* RequirePermission is the next of Authenticate: it runs when next.ServeHTTP did.
Forwarded(resp) == resp.nextCalls = 1

NoDecision == [stage |-> "none", status |-> 0, handlerCalls |-> 0]

\* The ways RequirePermission ends; the handler is called only by the last.
RefetchErrorResponse == [stage |-> "ServerError", status |-> 500, handlerCalls |-> 0]

NotPermittedResponse == [stage |-> "Forbidden", status |-> 403, handlerCalls |-> 0]

MissingUserPanic == [stage |-> "panic", status |-> 0, handlerCalls |-> 0]

Permitted == [stage |-> "Passed", status |-> 0, handlerCalls |-> 1]

\* Mutant: a user that is gone is answered like an invalid token.
RefetchNotFoundIsInvalidToken(err) ==
    IF err = ErrRecordNotFound
    THEN [stage |-> "InvalidToken", status |-> 401, handlerCalls |-> 0]
    ELSE RefetchErrorResponse

\* if err != nil { app.ServerErrorResponse(w, r, err); return }
RefetchError(err) == RefetchErrorResponse

\* What RequirePermission answers after the re-fetch.
Decide(err, snapshot, refreshed, code) ==
    IF err # ErrNil THEN RefetchError(err)
    ELSE IF ~Include(CapabilitiesOf(snapshot, refreshed), code) THEN NotPermittedResponse
    ELSE Permitted

RequirePermission(code, fail) ==
    /\ Forwarded(response)
    /\ authz.stage = "none"
    /\ required' = code
    /\ IF ~ContextHasUser(context)
       THEN /\ authz' = MissingUserPanic
            /\ UNCHANGED repoVars
       ELSE /\ Lookup("authz", GetID(ContextGetUser(context)), fail)
            /\ authz' = Decide(lastOp'.err, ContextGetUser(context), lastOp'.item, code)
    /\ UNCHANGED <<authVars, context, serveVars, handlerVars, filterVars>>

(***************************************************************************)
(* App.RecoverPanic around the handler of the route                        *)
(***************************************************************************)
\* The ResponseWriter of a request nothing was written to.
NoWire ==
    [closeSet |-> FALSE, headerSent |-> FALSE, status |-> 0, close |-> FALSE, body |-> <<>>]

\* http.ResponseWriter.WriteHeader: sends the status and the headers set so far;
\* a second call is ignored.
WriteHeader(w, status) ==
    IF w.headerSent THEN w
    ELSE [w EXCEPT !.headerSent = TRUE, !.status = status, !.close = w.closeSet]

\* http.ResponseWriter.Write: sends the header with 200 unless it was sent.
Write(w, data) == [WriteHeader(w, 200) EXCEPT !.body = Append(@, data)]

\* WriteJSON: w.WriteHeader(status); w.Write(js)
WriteJSON(w, status, data) == Write(WriteHeader(w, status), data)

\* Mutant: RecoverPanic without its Connection header.
ConnectionKept(w) == w

\* w.Header().Set("Connection", "close")
SetConnectionClose(w) == [w EXCEPT !.closeSet = TRUE]

\* Mutant: the text of the panic sent to the client.
ErrorBodyLeaks(err) == err

\* The message of ServerErrorResponse, whatever the error.
ErrorBody(err) == "The server encountered a problem and could not process your request"

\* What a handler panics with.
PanicTexts == {"runtime error: index out of range"}

\* next.ServeHTTP(w, r) inside RecoverPanic, for a request both stages let through.
HandlerStarts ==
    /\ authz.handlerCalls = 1
    /\ handlerPc = "idle"
    /\ handlerPc' = "running"
    /\ UNCHANGED <<wire, repoVars, serveVars, authVars, pipeVars, filterVars>>

\* The handler writes its response.
HandlerWrites ==
    /\ handlerPc = "running"
    /\ wire.body = <<>>
    /\ wire' = WriteJSON(wire, 200, "data")
    /\ UNCHANGED <<handlerPc, repoVars, serveVars, authVars, pipeVars, filterVars>>

HandlerReturns ==
    /\ handlerPc = "running"
    /\ handlerPc' = "returned"
    /\ UNCHANGED <<wire, repoVars, serveVars, authVars, pipeVars, filterVars>>

\* The handler panics, and the deferred function of RecoverPanic runs: recover(),
\* the Connection header, ServerErrorResponse.
RecoverPanic(text) ==
    /\ handlerPc = "running"
    /\ handlerPc' = "recovered"
    /\ wire' = WriteJSON(SetConnectionClose(wire), 500, ErrorBody(text))
    /\ UNCHANGED <<repoVars, serveVars, authVars, pipeVars, filterVars>>

\* The server takes the next request: a fresh request, context and response.
NextRequest ==
    /\ response.stage # "none"
    /\ response.stage = "Authenticated" => authz.stage # "none"
    /\ authz.handlerCalls = 1 => handlerPc \in {"returned", "recovered"}
    /\ response' = NoResponse
    /\ context' = NoContext
    /\ authz' = NoDecision
    /\ handlerPc' = "idle"
    /\ wire' = NoWire
    /\ UNCHANGED <<self, request, required, repoVars, serveVars, filterVars>>

PipeInit ==
    /\ context = NoContext
    /\ required = "read"
    /\ authz = NoDecision
    /\ handlerPc = "idle"
    /\ wire = NoWire

AuthInit ==
    /\ self = "http://localhost:4445"
    /\ request = [header |-> <<>>, token |-> CHOOSE t \in Tokens : TRUE, now |-> 0]
    /\ response = NoResponse
    /\ PipeInit
    /\ FiltersInit

(***************************************************************************)
(* Specification of the repository under concurrent callers.               *)
(***************************************************************************)
RepoInit ==
    /\ collection = [k \in Keys |-> NoDocument]
    /\ lastOp = Result("none", 0, 0, ErrNil, ZeroUser)
    /\ creates = 0
    /\ cursor = NoCursor
    /\ held = {}
    /\ okLife = 0
    /\ okEver = 0
    /\ rejLife = FALSE

WriteNext ==
    \/ \E c \in Callers, id \in Keys, fail \in BOOLEAN : GetByID(c, id, fail)
    \/ \E e \in Entities, fail \in BOOLEAN, idIsK \in BOOLEAN : Create(e, fail, idIsK)
    \/ \E c \in Callers, e \in Entities, fail \in BOOLEAN : Update(c, e, fail)
    \/ \E id \in Keys, fail \in BOOLEAN : Delete(id, fail)

\* The list requests issued: page 1 and 2 of size 1, a page of size 2, page 0
\* (a negative skip), and a sort value outside the safelist.
ListRequests ==
    { Filters(1, 1, "version", SortSafelist), Filters(2, 1, "version", SortSafelist),
      Filters(1, 2, "-version", SortSafelist), Filters(0, 1, "version", SortSafelist),
      Filters(1, 0, "name", SortSafelist) }

ReadNext ==
    \/ \E c \in Callers, filter \in QueryFilters, fail \in BOOLEAN : GetByFilter(c, filter, fail)
    \/ \E filter \in QueryFilters, f \in ListRequests, fail \in BOOLEAN :
            GetAllFind(filter, f, fail)
    \/ \E fail \in BOOLEAN : GetAllCount(fail)

\* Concurrent writers of one collection, the Updates of one (key, version) counted.
Init == RepoInit /\ watch \in WatchedPairs /\ ServeInit /\ AuthInit

Next == WriteNext

Spec == Init /\ [][Next]_vars

\* Every repository operation, reads and lists included; nothing is counted.
StoreInit == RepoInit /\ watch = <<0, 0>> /\ ServeInit /\ AuthInit

StoreNext == WriteNext \/ ReadNext

SpecStore == StoreInit /\ [][StoreNext]_vars

\* One server process: requests, background units, a signal, the shutdown.
ServeSpecInit == RepoInit /\ watch = <<0, 0>> /\ ServeInit /\ AuthInit

ServeSpecNext == ServeNext

SpecServe == ServeSpecInit /\ [][ServeSpecNext]_vars

\* The Go scheduler runs every goroutine that can run: a started unit's deferred
\* calls are not postponed for ever.
ServeFairness ==
    \A u \in Units : WF_vars(UnitRecovers(u)) /\ WF_vars(UnitDone(u))

SpecServeFair == SpecServe /\ ServeFairness

\* Every goroutine that can take a step takes it: units start and finish,
\* server.Shutdown returns, channel operations that have a partner happen.
ServeLiveness ==
    /\ ServeFairness
    /\ \A u \in Units : WF_vars(UnitStarts(u)) /\ WF_vars(\E p \in BOOLEAN : UnitEnds(u, p))
    /\ WF_vars(\E err \in {"nil", "deadline exceeded", "listener error"} :
                  ShutdownReturns(err))
    /\ WF_vars(ListenReturnsClosed)
    /\ WF_vars(SendErr)
    /\ WF_vars(WaitReturns)
    /\ WF_vars(SendNil)

SpecServeLive == SpecServe /\ ServeLiveness

\* One service whose collection holds user 1, answering one request.
AuthSpecInit ==
    /\ RepoInit
    /\ watch = <<0, 0>>
    /\ ServeInit
    /\ self \in Services
    /\ request = [header |-> <<>>, token |-> CHOOSE t \in Tokens : TRUE, now |-> 0]
    /\ response = NoResponse
    /\ PipeInit
    /\ FiltersInit

AuthSpecNext ==
    \/ /\ response.stage = "none"
       /\ creates = 1
       /\ \E header \in Headers, token \in Tokens, now \in Times, fail \in BOOLEAN :
             Authenticate(header, token, now, fail)
    \/ /\ creates = 0
       /\ \E e \in {u \in Entities : u.Version = 1 /\ u.ID = 1} : Create(e, FALSE, TRUE)

SpecAuth == AuthSpecInit /\ [][AuthSpecNext]_vars

\* The requests of the pipeline: a good token of user 1, of a user that does not
\* exist, one whose subject is no number, an unsigned one, and no header.
PipelineRequests ==
    { [header |-> h, token |-> t, now |-> 0] :
        h \in {<<>>, <<"Bearer", "token">>},
        t \in { [signed |-> sg, Issuer |-> Authority, Audiences |-> {ExpectedAudience},
                 Subject |-> sub, NotBefore |-> NoTime, Expires |-> NoTime] :
                 sg \in BOOLEAN, sub \in {"1", "2", "x"} } }

\* One service behind Authenticate and RequirePermission, answering request after
\* request while the permissions of user 1 are changed in the store.
PipelineInit ==
    /\ RepoInit
    /\ watch = <<0, 0>>
    /\ ServeInit
    /\ AuthInit

\* User 1 as the identity service stores it: activated or not.
PipelineEntities ==
    { User(1, ps, a, v) : ps \in {{"read"}, PermissionCodes}, a \in BOOLEAN, v \in Versions }

PipelineNext ==
    \/ /\ response.stage = "none"
       /\ \E r \in PipelineRequests, fail \in BOOLEAN :
             Authenticate(r.header, r.token, r.now, fail)
    \/ \E code \in PermissionCodes, fail \in BOOLEAN : RequirePermission(code, fail)
    \/ NextRequest
    \/ HandlerStarts
    \/ HandlerWrites
    \/ HandlerReturns
    \/ \E text \in PanicTexts : RecoverPanic(text)
    \/ \E e \in {u \in PipelineEntities : u.Version = 1} : Create(e, FALSE, TRUE)
    \/ \E e \in PipelineEntities : Update("A", e, FALSE)
    \/ Delete(1, FALSE)

SpecPipeline == PipelineInit /\ [][PipelineNext]_vars

\* Filters built from query parameters, validated and turned into find options.
FiltersSpecInit ==
    /\ RepoInit
    /\ watch = <<0, 0>>
    /\ ServeInit
    /\ self = "http://localhost:4445"
    /\ request = [header |-> <<>>, token |-> CHOOSE t \in Tokens : TRUE, now |-> 0]
    /\ response = NoResponse
    /\ PipeInit
    /\ filters \in FilterInputs
    /\ validation = NotValidated
    /\ paging = NotPaged

FiltersSpecNext == Validate \/ FindOptions

SpecFilters == FiltersSpecInit /\ [][FiltersSpecNext]_vars

(***************************************************************************)
(* Claims about Update.                                                    *)
(***************************************************************************)
UpdateReturned(err) == lastOp.op = "Update" /\ lastOp.err = err

\* C1 as stated: among all Update calls that submit one version of one key, at
\* most one ever succeeds.
C1_AtMostOneSuccessEver == okEver <= 1

\* C1, amended: between a Create of a key and the next Delete of it, at most one
\* Update submitting version v succeeds; a caller that fetched version v of the
\* live document and is rejected with ErrEditConflict lost to exactly one
\* successful Update of v, which stored v + 1.
C1_AtMostOneSuccessPerLife ==
    /\ okLife <= 1
    /\ rejLife => okLife = 1
    /\ UpdateReturned(ErrNil) =>
          /\ collection[lastOp.id] # NoDocument
          /\ collection[lastOp.id].Version = lastOp.version + 1

\* Both callers fetched the counted version of the live document, one Update
\* succeeded and the other was rejected.
C1_Witness ==
    /\ held = Callers
    /\ okLife = 1
    /\ rejLife
    /\ UpdateReturned(ErrEditConflict)
    /\ collection[watch[1]] # NoDocument

StoredVersions(coll) ==
    [k \in Keys |-> IF coll[k] = NoDocument THEN 0 ELSE coll[k].Version]

C3_UnmatchedUpdateChangesNothing ==
    [][ lastOp'.op = "Update" =>
          /\ (/\ lastOp'.err # ErrStorage
              /\ \/ collection[lastOp'.id] = NoDocument
                 \/ collection[lastOp'.id].Version # lastOp'.version)
                => lastOp'.err = ErrEditConflict
          /\ lastOp'.err = ErrEditConflict => collection' = collection
      ]_vars

\* An Update of a key that was updated before and has been deleted since.
C3_Witness ==
    /\ UpdateReturned(ErrEditConflict)
    /\ lastOp.id = watch[1]
    /\ okEver = 1
    /\ collection[lastOp.id] = NoDocument

(***************************************************************************)
(* Claims about Serve and Background.                                      *)
(***************************************************************************)
ServeReturnsNow == servePc # "returned" /\ servePc' = "returned"

\* C4: after a signal Serve returns only once the WaitGroup counter is zero,
\* also when server.Shutdown returned an error.
C4_ServeReturnsAfterDrain ==
    [][ (ServeReturnsNow /\ shutdownResult # "none") => WaitGroup = 0 ]_vars

\* C5: when server.Shutdown returned nil, Serve has not returned unless every
\* unit outstanding at the signal has deregistered and the counter is zero.
C5_CleanShutdownDrains ==
    (servePc = "returned" /\ shutdownResult = "nil") =>
        /\ WaitGroup = 0
        /\ \A u \in atSignal : units[u] = "done"
        /\ \A u \in Units : units[u] \notin Outstanding

\* Serve returned nil and a unit was outstanding when the signal arrived.
C5_Witness ==
    /\ servePc = "returned"
    /\ serveErr = "nil"
    /\ atSignal # {}

\* C6: Serve returns the error of a failed server.Shutdown, and returns nil only
\* when server.Shutdown returned nil.
C6_ShutdownErrorSurfaces ==
    /\ serveErr = "nil" => shutdownResult = "nil"
    /\ (servePc = "returned" /\ shutdownResult \notin {"none", "nil"}) =>
          serveErr = shutdownResult

\* The grace period elapsed and Serve returned the context's error.
C6_Witness ==
    /\ servePc = "returned"
    /\ serveErr = "deadline exceeded"

\* C7: the counter is the number of units spawned and not yet deregistered, it is
\* never below the number of units whose fn has not returned, and never negative.
C7_CounterCountsUnits ==
    /\ WaitGroup = Cardinality({u \in Units : units[u] \in Outstanding})
    /\ WaitGroup >= Cardinality({u \in Units : units[u] \in {"spawned", "running"}})
    /\ WaitGroup >= 0

\* One unit deregistered after a panic while another is running.
C7_Witness ==
    \E u, w \in Units :
        /\ units[u] = "done"
        /\ u \in panicked
        /\ units[w] = "running"
        /\ WaitGroup = 1

\* C8: a panic of fn never ends the process, it is logged by the unit's own
\* goroutine, and the unit is deregistered afterwards.
C8_PanicIsContained ==
    /\ [](~crashed)
    /\ [](\A u \in panicked :
             /\ units[u] \in {"panicking", "recovered", "done"}
             /\ (units[u] # "panicking" => u \in logged))
    /\ \A u \in Units : (u \in panicked) ~> (units[u] = "done" /\ u \in logged)

\* A unit panicked, was logged and deregistered, and the process lives.
C8_Witness ==
    \E u \in panicked :
        /\ units[u] = "done"
        /\ u \in logged
        /\ WaitGroup = 0
        /\ ~crashed

(***************************************************************************)
(* Claims about Authenticate.                                              *)
(***************************************************************************)
Answered == response.stage # "none"

OutsideWindow(token, now) ==
    \/ token.Expires # NoTime /\ now >= token.Expires
    \/ token.NotBefore # NoTime /\ now < token.NotBefore

BadCredential(r) ==
    \/ r.header = <<>>
    \/ Len(r.header) # 2
    \/ r.header[1] # "Bearer"
    \/ ~r.token.signed
    \/ OutsideWindow(r.token, r.now)
    \/ r.token.Issuer # Authority

\* C9: a request with no or a malformed Authorization header, a bad signature,
\* a token outside its validity window or a foreign issuer is answered 401 with
\* WWW-Authenticate: Bearer, and next is not called.
C9_BadCredentialIsInvalidToken ==
    (Answered /\ BadCredential(request)) =>
        /\ response.stage = "InvalidToken"
        /\ response.status = 401
        /\ response.challenge = "Bearer"
        /\ response.nextCalls = 0

\* A well-formed, signed token of the trusted issuer that expired one second ago.
C9_Witness ==
    /\ Answered
    /\ HeaderIsBearer(request.header)
    /\ request.token.signed
    /\ request.token.Issuer = Authority
    /\ ExpectedAudience \in request.token.Audiences
    /\ request.token.NotBefore = NoTime
    /\ request.token.Expires = request.now - 1
    /\ response.stage = "InvalidToken"
    /\ response.challenge = "Bearer"

\* C10: a token of an existing user that is valid in every other respect is
\* rejected with InvalidToken when its audiences omit the identifier of the
\* service that runs the stage, and is not rejected so when they include it.
C10_AudienceIsOwnIdentifier ==
    (/\ Answered
     /\ ~BadCredential(request)
     /\ request.token.Subject = "1") =>
        (response.stage = "InvalidToken" <=> self \notin request.token.Audiences)

(***************************************************************************)
(* Claims about the lookup of the subject and the forwarded request.       *)
(***************************************************************************)
\* The token passed the header, signature, validity, issuer and audience checks.
PassedCredentialChecks(r) ==
    /\ ~BadCredential(r)
    /\ (ExpectedAudience \in r.token.Audiences \/ r.token.Audiences = {})

LookedUp == lastOp.op = "GetByID"

\* C11: after the credential checks the lookup of the subject decides: NotFound
\* is answered like any invalid token (401 with the challenge), any other error
\* 500, and next is called in neither case.
C11_LookupDecides ==
    (Answered /\ PassedCredentialChecks(request) /\ ParseInt(request.token.Subject) # -1) =>
        /\ LookedUp
        /\ lastOp.err = ErrRecordNotFound => response = InvalidAuthenticationTokenResponse
        /\ lastOp.err = ErrStorage =>
              /\ response.stage = "ServerError"
              /\ response.status = 500
              /\ response.challenge = ""
        /\ lastOp.err # ErrNil => response.nextCalls = 0 /\ ~context.present

\* A good token of user 2, who is not in the collection.
C11_Witness ==
    /\ Answered
    /\ PassedCredentialChecks(request)
    /\ request.token.Subject = "2"
    /\ lastOp.err = ErrRecordNotFound
    /\ response.status = 401

\* C12: a token that passed the credential checks and whose subject is no integer
\* is answered 500 without the challenge; the repository and next are not called.
C12_MalformedSubjectIsServerError ==
    (Answered /\ PassedCredentialChecks(request) /\ ParseInt(request.token.Subject) = -1) =>
        /\ response.stage = "ServerError"
        /\ response.status = 500
        /\ response.challenge = ""
        /\ response.nextCalls = 0
        /\ ~LookedUp

C12_Witness ==
    /\ Answered
    /\ PassedCredentialChecks(request)
    /\ request.token.Subject = "x"
    /\ response.status = 500
    /\ lastOp.op = "Create"

\* C13: when every check passes and GetByID returns a user, no response is written,
\* next is called once, and ContextGetUser on the forwarded request returns the
\* user stored under the subject.
C13_ForwardsResolvedIdentity ==
    (/\ Answered
     /\ PassedCredentialChecks(request)
     /\ ParseInt(request.token.Subject) # -1
     /\ LookedUp
     /\ lastOp.err = ErrNil) =>
        /\ response.stage = "Authenticated"
        /\ response.status = 0
        /\ response.challenge = ""
        /\ response.nextCalls = 1
        /\ ContextHasUser(context)
        /\ ContextGetUser(context) = collection[ParseInt(request.token.Subject)]
        /\ ContextGetUser(context) = lastOp.item

C13_Witness ==
    /\ response.stage = "Authenticated"
    /\ response.nextCalls = 1
    /\ request.token.Subject = "1"
    /\ ContextHasUser(context)
    /\ GetID(ContextGetUser(context)) = 1
    /\ GetPermissions(ContextGetUser(context)) = PermissionCodes

(***************************************************************************)
(* Claims about RequirePermission and the order of the stages.             *)
(***************************************************************************)
\* The step in which RequirePermission answers.
Authorizes == authz.stage = "none" /\ authz'.stage # "none"

\* The user Authenticate attached to the request RequirePermission handles.
Snapshot == ContextGetUser(context)

\* C14: RequirePermission decides on the permissions stored when it fetches the
\* user again, not on those of the user Authenticate attached: a code revoked in
\* the store since is refused, a code granted since is honoured.
C14_DecidesOnStoredCapabilities ==
    [][ (Authorizes /\ lastOp'.err = ErrNil) =>
            /\ collection[GetID(Snapshot)] # NoDocument
            /\ (required' \in GetPermissions(collection[GetID(Snapshot)])
                    => authz'.stage = "Passed")
            /\ (required' \notin GetPermissions(collection[GetID(Snapshot)])
                    => authz'.stage = "Forbidden") ]_vars

\* The code was among the permissions Authenticate saw and is revoked in the store:
\* the request with its still valid token is refused.
C14_Witness ==
    /\ response.stage = "Authenticated"
    /\ authz.stage = "Forbidden"
    /\ required \in GetPermissions(Snapshot)
    /\ collection[1] # NoDocument
    /\ required \notin GetPermissions(collection[1])

\* C15: when the re-fetch succeeds the handler is called iff the required code is
\* in the permissions of the user fetched; otherwise the answer is 403 and the
\* handler is not called.
C15_HandlerIffCodeIncluded ==
    [][ (Authorizes /\ lastOp'.op = "GetByID" /\ lastOp'.err = ErrNil) =>
            IF required' \in GetPermissions(lastOp'.item)
            THEN authz'.handlerCalls = 1 /\ authz'.status = 0
            ELSE authz'.handlerCalls = 0 /\ authz'.status = 403 ]_vars

\* A user holding {read} asks for a route that requires write.
C15_Witness ==
    /\ authz.stage = "Forbidden"
    /\ authz.status = 403
    /\ authz.handlerCalls = 0
    /\ required = "write"
    /\ GetPermissions(Snapshot) = {"read"}
    /\ lastOp.op = "GetByID"
    /\ GetPermissions(lastOp.item) = {"read"}

\* The responses written for the request so far.
Written ==
    (IF response.status # 0 THEN 1 ELSE 0) + (IF authz.status # 0 THEN 1 ELSE 0)

\* C16: RequirePermission runs only after Authenticate forwarded the request and
\* the handler only after RequirePermission passed; a stage that ends in
\* InvalidToken, Forbidden or ServerError wrote the one response of the request,
\* and no later stage and no handler runs.
C16_StagesInOrder ==
    /\ authz.stage # "none" => response.stage = "Authenticated"
    /\ authz.handlerCalls = 1 => response.stage = "Authenticated" /\ authz.stage = "Passed"
    /\ response.stage \in {"InvalidToken", "ServerError"} =>
          /\ authz = NoDecision
          /\ Written = 1
    /\ authz.stage \in {"Forbidden", "ServerError"} =>
          /\ authz.handlerCalls = 0
          /\ Written = 1
    /\ authz.handlerCalls <= 1 /\ response.nextCalls <= 1

\* A request that went through both stages to the handler.
C16_Witness ==
    /\ response.stage = "Authenticated"
    /\ authz.stage = "Passed"
    /\ authz.handlerCalls = 1
    /\ Written = 0

(***************************************************************************)
(* Claims about Delete and the lookups.                                    *)
(***************************************************************************)
\* C17: Delete returns nil only for a key that has a document, and then removes
\* that document and no other; for a key without a document it returns
\* ErrRecordNotFound and changes nothing; only Create brings a key back, so of
\* the Deletes of one key between two Creates at most one returns nil.
C17_DeleteOnceThenNotFound ==
    [][ /\ lastOp'.op = "Delete" =>
            /\ lastOp'.err = ErrNil =>
                  /\ collection[lastOp'.id] # NoDocument
                  /\ collection' = [collection EXCEPT ![lastOp'.id] = NoDocument]
            /\ lastOp'.err # ErrNil => collection' = collection
            /\ lastOp'.err = ErrRecordNotFound => collection[lastOp'.id] = NoDocument
            /\ collection[lastOp'.id] = NoDocument =>
                  lastOp'.err \in {ErrRecordNotFound, ErrStorage}
        /\ \A k \in Keys :
              (collection[k] = NoDocument /\ collection'[k] # NoDocument) =>
                  lastOp'.op = "Create" ]_vars

\* The watched key was created, updated and deleted; a second Delete of it
\* returned ErrRecordNotFound.
C17_Witness ==
    /\ lastOp.op = "Delete"
    /\ lastOp.id = watch[1]
    /\ lastOp.err = ErrRecordNotFound
    /\ okEver = 1
    /\ collection[watch[1]] = NoDocument

\* C18: while every caller holds the watched version v of a document and an
\* Update has moved the stored version past v, a Delete of that key does not
\* remove the document.
C18_DeleteChecksVersion ==
    [][ (/\ lastOp'.op = "Delete"
         /\ lastOp'.id = watch[1]
         /\ held = Callers
         /\ collection[watch[1]] # NoDocument
         /\ GetVersion(collection[watch[1]]) = watch[2] + 1)
            => collection'[watch[1]] # NoDocument ]_vars

\* What the filters of the callers ask of a document.
Satisfies(filter, doc) == filter = "write" => "write" \in doc.Permissions

StoredDocuments == { collection[k] : k \in { i \in Keys : collection[i] # NoDocument } }

\* C19: GetByID returns the document stored under the key with a nil error, or
\* ErrRecordNotFound when there is none; GetByFilter does the same for the
\* documents that satisfy its filter; another failure is returned as another
\* error; neither changes the collection.
C19_LookupContract ==
    /\ [](lastOp.op = "GetByID" =>
            /\ lastOp.err \in {ErrNil, ErrRecordNotFound, ErrStorage}
            /\ lastOp.err = ErrNil =>
                  /\ collection[lastOp.id] # NoDocument
                  /\ lastOp.item = collection[lastOp.id]
            /\ lastOp.err = ErrRecordNotFound => collection[lastOp.id] = NoDocument)
    /\ [](lastOp.op = "GetByFilter" =>
            /\ lastOp.err \in {ErrNil, ErrRecordNotFound, ErrStorage}
            /\ lastOp.err = ErrNil =>
                  /\ lastOp.item \in StoredDocuments
                  /\ Satisfies(lastOp.filter, lastOp.item)
            /\ lastOp.err = ErrRecordNotFound =>
                  \A doc \in StoredDocuments : ~Satisfies(lastOp.filter, doc))
    /\ [][ lastOp'.op \in {"GetByID", "GetByFilter"} => collection' = collection ]_vars

\* The collection holds documents, none of which grants "write".
C19_Witness ==
    /\ lastOp.op = "GetByFilter"
    /\ lastOp.filter = "write"
    /\ lastOp.err = ErrRecordNotFound
    /\ StoredDocuments # {}

(***************************************************************************)
(* Claims about Filters.                                                   *)
(***************************************************************************)
\* C20: for Filters that ValidateFilters lets through, Offset is
\* (Page - 1) * PageSize, Limit is PageSize, and neither is negative.
C20_ValidPagingIsNonNegative ==
    (validation.done /\ ~HasErrors(validation.errors) /\ paging.done) =>
        /\ ~paging.panicked
        /\ paging.offset = (filters.Page - 1) * filters.PageSize
        /\ paging.limit = filters.PageSize
        /\ paging.offset >= 0
        /\ paging.limit >= 0

(***************************************************************************)
(* Claims about GetAll.                                                    *)
(***************************************************************************)
\* A sort value without its leading "-".
WithoutMarker(sort) ==
    IF sort = "-version" THEN "version"
    ELSE IF sort = "-_id" THEN "_id"
    ELSE IF sort = "-name" THEN "name"
    ELSE sort

\* The step in which GetAll issues collection.Find, and the one in which it returns.
Finds == cursor = NoCursor /\ cursor' # NoCursor

Counts == cursor # NoCursor /\ cursor' = NoCursor

\* C21: SortColumn returns the sort value without its "-" when the value is in
\* the safelist as it stands and panics for every other value; a GetAll that
\* panics has issued no Find, and every Find carries a safelisted sort value.
C21_UnsafeSortNeverReachesStorage ==
    /\ [](\A f \in FilterInputs \cup ListRequests :
            IF f.Sort \in f.SortSafelist
            THEN SortColumn(f) = WithoutMarker(f.Sort)
            ELSE SortColumn(f) = "panic")
    /\ [][ Finds => cursor'.findOpts.Sort \in cursor'.findOpts.SortSafelist ]_vars
    /\ [][ lastOp'.err = "panic" =>
              /\ lastOp'.op = "GetAll"
              /\ cursor = NoCursor
              /\ cursor' = NoCursor
              /\ collection' = collection ]_vars

\* GetAll panicked on an unsafe sort value while the collection holds documents.
C21_Witness ==
    /\ lastOp.op = "GetAll"
    /\ lastOp.err = "panic"
    /\ cursor = NoCursor
    /\ StoredDocuments # {}

\* The documents a filter matches now.
MatchingNow(filter) == { doc \in StoredDocuments : Satisfies(filter, doc) }

\* ceil(n / d) for d >= 1.
Ceiling(n, d) == CHOOSE q \in 0..n : q * d >= n /\ (q - 1) * d < n

\* C22: the metadata GetAll returns is all zero when no document matches, and
\* otherwise the requested page and page size, first page 1, the number of
\* matching documents, and the last page ceil(total / pageSize).
C22_MetadataOfTotal ==
    [][ (Counts /\ lastOp'.err = ErrNil) =>
          LET total == Cardinality(MatchingNow(cursor.filter))
              f == cursor.findOpts
          IN IF total = 0
             THEN lastOp'.metadata =
                    [CurrentPage |-> 0, PageSize |-> 0, FirstPage |-> 0, LastPage |-> 0,
                     TotalRecords |-> 0]
             ELSE /\ lastOp'.metadata.CurrentPage = f.Page
                  /\ lastOp'.metadata.PageSize = f.PageSize
                  /\ lastOp'.metadata.FirstPage = 1
                  /\ lastOp'.metadata.TotalRecords = total
                  /\ f.PageSize >= 1 =>
                        lastOp'.metadata.LastPage = Ceiling(total, f.PageSize) ]_vars

\* Page 2 of size 1 of two documents.
C22_Witness ==
    /\ lastOp.op = "GetAll"
    /\ lastOp.err = ErrNil
    /\ lastOp.metadata.CurrentPage = 2
    /\ lastOp.metadata.TotalRecords = 2
    /\ lastOp.metadata.LastPage = 2
    /\ Len(lastOp.items) = 1

\* The value a document is sorted by first, and the orderings of a set of
\* documents by that value and then by key ascending.
PrimaryKey(doc, sort) ==
    (IF WithoutMarker(sort) = "version" THEN doc.Version ELSE doc.ID)
        * (IF sort = WithoutMarker(sort) THEN 1 ELSE -1)

Orderings(docs, sort) ==
    { seq \in [1..Cardinality(docs) -> docs] :
        \A i, j \in 1..Cardinality(docs) :
            i < j => \/ PrimaryKey(seq[i], sort) < PrimaryKey(seq[j], sort)
                     \/ /\ PrimaryKey(seq[i], sort) = PrimaryKey(seq[j], sort)
                        /\ seq[i].ID < seq[j].ID }

PageOf(seq, p, pageSize) ==
    SubSeq(seq, (p - 1) * pageSize + 1,
           IF p * pageSize < Len(seq) THEN p * pageSize ELSE Len(seq))

\* C24: the documents a filter matches have one ordering by the requested column
\* and direction and then by key ascending; every Find returns the requested
\* page of that ordering, and pages 1, 2, ... of one size are its consecutive
\* pieces, also when documents agree in the requested column.
C24_PagesOfOneOrdering ==
    /\ [](\A filter \in QueryFilters, sort \in SortSafelist :
            /\ Cardinality(Orderings(MatchingNow(filter), sort)) = 1
            /\ \A seq \in Orderings(MatchingNow(filter), sort) :
                  /\ PageOf(seq, 1, 1) \o PageOf(seq, 2, 1) \o PageOf(seq, 3, 1) = seq
                  /\ \A p \in 1..2, q \in 1..2 :
                        p # q => \A i \in 1..Len(PageOf(seq, p, 1)) :
                                    \A j \in 1..Len(PageOf(seq, q, 1)) :
                                        PageOf(seq, p, 1)[i] # PageOf(seq, q, 1)[j])
    /\ [][ Finds =>
             \A seq \in Orderings(MatchingNow(cursor'.filter), cursor'.findOpts.Sort) :
                cursor'.items =
                    PageOf(seq, cursor'.findOpts.Page, cursor'.findOpts.PageSize) ]_vars

\* Two documents of the same version, listed by version: page 2 holds key 2.
C24_Witness ==
    /\ lastOp.op = "GetAll"
    /\ lastOp.err = ErrNil
    /\ lastOp.metadata.CurrentPage = 2
    /\ Len(lastOp.items) = 1
    /\ lastOp.items[1].ID = 2
    /\ collection[1] # NoDocument
    /\ collection[2] # NoDocument
    /\ collection[1].Version = collection[2].Version
    /\ lastOp.items[1] = collection[2]

\* C25: GetAll counts in a query of its own after Find: the total it returns is
\* the number of documents matching when it counts, which is the number that
\* matched at Find when the collection did not change in between (and the page
\* is then no longer than the total).
C25_CountIsSeparateQuery ==
    [][ (Counts /\ lastOp'.err = ErrNil) =>
          /\ lastOp'.metadata.TotalRecords = Cardinality(MatchingNow(cursor.filter))
          /\ lastOp'.items = cursor.items
          /\ cursor.matched = MatchingNow(cursor.filter) =>
                /\ lastOp'.metadata.TotalRecords = Cardinality(cursor.matched)
                /\ Len(lastOp'.items) <= lastOp'.metadata.TotalRecords ]_vars

\* A Delete between Find and CountDocuments: a page of one document, a total of 0.
C25_Witness ==
    /\ lastOp.op = "GetAll"
    /\ lastOp.err = ErrNil
    /\ Len(lastOp.items) = 1
    /\ lastOp.metadata.TotalRecords = 0
    /\ lastOp.metadata = ZeroMetadata

(***************************************************************************)
(* Claims about RecoverPanic.                                              *)
(***************************************************************************)
Recovered == handlerPc = "recovered"

Chunks(w) == { w.body[i] : i \in 1..Len(w.body) }

C26_RefetchNotFoundIsServerError ==
    [][ (Authorizes /\ lastOp'.err # ErrNil) =>
            /\ lastOp'.op = "GetByID"
            /\ authz'.stage = "ServerError"
            /\ authz'.status = 500
            /\ authz'.handlerCalls = 0 ]_vars

\* User 1 was deleted after Authenticate attached it.
C26_Witness ==
    /\ response.stage = "Authenticated"
    /\ authz.stage = "ServerError"
    /\ authz.status = 500
    /\ lastOp.op = "GetByID"
    /\ lastOp.err = ErrRecordNotFound
    /\ collection[1] = NoDocument

\* C27: Create returns a key exactly when it returns a nil error.
C27_CreateKeyIffNoError ==
    lastOp.op = "Create" => (lastOp.err = ErrNil <=> lastOp.id # 0)

\* C28: Filters for which ValidateFilters records no error under "sort" do not
\* make SortColumn panic.
C28_ValidatedSortDoesNotPanic ==
    (validation.done /\ "sort" \notin validation.errors /\ paging.done) =>
        /\ ~paging.panicked
        /\ paging.column = WithoutMarker(filters.Sort)

\* A descending sort that passed, next to a page that did not.
C28_Witness ==
    /\ validation.done
    /\ validation.errors = {"page"}
    /\ paging.done
    /\ ~paging.panicked
    /\ filters.Sort = "-version"
    /\ paging.column = "version"

\* C29: after the signal Serve returns and the signal goroutine ends, every
\* value it sends on shutdownError having been received.
C29_ShutdownTerminates ==
    (sigPc = "shutdown") ~> (servePc = "returned" /\ sigPc = "done")

\* The users that differ from u in Activated or Version only.
Variants(u) == { [u EXCEPT !.Activated = a, !.Version = v] : a \in BOOLEAN, v \in Versions }

Authenticates == response.stage = "none" /\ response'.stage # "none"

\* C30: what Authenticate and RequirePermission answer is the same for every
\* stored user that differs from the one found in Activated or Version only.
C30_OutcomeIgnoresActivatedAndVersion ==
    /\ [][ (/\ Authenticates
            /\ PassedCredentialChecks(request')
            /\ ParseInt(request'.token.Subject) # -1
            /\ lastOp'.err = ErrNil) =>
              \A twin \in Variants(lastOp'.item) :
                  /\ LookupResponse(ErrNil, twin).stage = response'.stage
                  /\ LookupResponse(ErrNil, twin).status = response'.status
                  /\ LookupResponse(ErrNil, twin).nextCalls = response'.nextCalls ]_vars
    /\ [][ (Authorizes /\ lastOp'.err = ErrNil) =>
              \A twin \in Variants(lastOp'.item), snapshot \in Variants(Snapshot) :
                  Decide(ErrNil, snapshot, twin, required') = authz' ]_vars

\* A user that is not activated passed both stages.
C30_Witness ==
    /\ response.stage = "Authenticated"
    /\ authz.stage = "Passed"
    /\ ~Snapshot.Activated
    /\ collection[1] # NoDocument
    /\ ~collection[1].Activated

====
